---------------------------- MODULE Spec2Model ----------------------------
(***************************************************************************)
(* Model of the TradeBOT analytics pipeline (sensex_bot):                  *)
(*   collect_market_data -> enrich_with_indicators -> generate_signals     *)
(*   -> batch_evaluate -> estimate_probability -> build_report_dataframe   *)
(*   -> save_excel_report                                                  *)
(*                                                                         *)
(* Units.  Python floats are modelled by scaled integers:                  *)
(*   scores and probabilities : hundredths of a point  (55.0  -> 5500)     *)
(*   returns (Ret1D, Ret5D)   : basis points           (0.10  -> 1000)     *)
(*   VolumeRatio              : hundredths             (1.2   -> 120)      *)
(*   volatility, drawdown, trend, stability : 1e-4     (0.6   -> 6000)     *)
(*   prices                   : hundredths of a rupee  (10.00 -> 1000)     *)
(* The float NaN is the model value NaN; comparisons with it are false,    *)
(* as in Python.                                                           *)
(***************************************************************************)
EXTENDS Integers, Sequences, FiniteSets, TLC

VARIABLES
    mode,            \* which entry point this behaviour exercises
    pc,              \* position inside the entry point
    row,             \* score harness: the enriched row being scored
    buy_score,       \* score harness: result of _buy_score(row)
    sell_score,      \* score harness: result of _sell_score(row)
    top_n,           \* cap per direction handed to generate_signals
    price_history,   \* ordered mapping symbol -> Daily Bar Table
    indicator_data,  \* ordered mapping symbol -> Enriched Bar Table
    signals,         \* list of TradeSignal returned by generate_signals
    risks,           \* dict symbol -> RiskProfile built by batch_evaluate
    probabilities,   \* dict symbol -> ProbabilityEstimate
    report_df,       \* rows of the report built by build_report_dataframe
    saved,           \* what save_excel_report wrote, NONE before
    prob_in,         \* probability harness: two signals and a risk profile
    prob_out         \* probability harness: the two estimates

vars == <<mode, pc, row, buy_score, sell_score, top_n, price_history,
          indicator_data, signals, risks, probabilities, report_df, saved,
          prob_in, prob_out>>

scoreVars == <<row, buy_score, sell_score>>
probVars == <<prob_in, prob_out>>
reportVars == <<risks, probabilities, report_df, saved>>

NONE == "none"

Min(a, b) == IF a < b THEN a ELSE b
Max(a, b) == IF a > b THEN a ELSE b
Abs(a) == IF a < 0 THEN -a ELSE a

\* x points (or percent) in hundredths
Pts(x) == x * 100

(***************************************************************************)
(* signal_generator.py : _buy_score / _sell_score                          *)
(***************************************************************************)

\* BUY score without the upper clamp on the momentum term
BuyScoreUnclamped(r) ==
    (IF r.SMA20 > r.SMA50 THEN Pts(20) ELSE 0)
    + (IF r.SMA50 > r.SMA200 THEN Pts(15) ELSE 0)
    + (IF 40 <= r.RSI14 /\ r.RSI14 <= 70 THEN Pts(20) ELSE 0)
    + (IF r.MACD > r.MACDSignal THEN Pts(20) ELSE 0)
    + (IF r.VolumeRatio > 120 THEN Pts(15) ELSE 0)
    + Max(r.Ret5D, 0)

BuyScore(r) ==
    (IF r.SMA20 > r.SMA50 THEN Pts(20) ELSE 0)
    + (IF r.SMA50 > r.SMA200 THEN Pts(15) ELSE 0)
    + (IF 40 <= r.RSI14 /\ r.RSI14 <= 70 THEN Pts(20) ELSE 0)
    + (IF r.MACD > r.MACDSignal THEN Pts(20) ELSE 0)
    + (IF r.VolumeRatio > 120 THEN Pts(15) ELSE 0)
    + Min(Max(r.Ret5D, 0), Pts(10))

SellScore(r) ==
    (IF r.RSI14 > 75 THEN Pts(20) ELSE 0)
    + (IF r.SMA20 < r.SMA50 THEN Pts(20) ELSE 0)
    + (IF r.SMA50 < r.SMA200 THEN Pts(15) ELSE 0)
    + (IF r.MACD < r.MACDSignal THEN Pts(20) ELSE 0)
    + (IF r.VolumeRatio > 120 /\ r.Ret1D < 0 THEN Pts(15) ELSE 0)
    + Min(Abs(Min(r.Ret5D, 0)), Pts(10))

(***************************************************************************)
(* Enriched rows used as inputs                                            *)
(***************************************************************************)

\* moving-average levels are only compared with each other
MaLevels == 1..3
RsiValues == {30, 39, 40, 55, 70, 71, 75, 76}
MacdValues == {-1, 0, 1}
VolumeRatios == {100, 120, 121, 150}
Ret1DValues == {-100, 0, 100}
Ret5DValues == {-2000, -1000, -499, -1, 0, 1, 499, 500, 999, 1000, 1001, 2000}

Rows ==
    [SMA20 : MaLevels, SMA50 : MaLevels, SMA200 : MaLevels,
     RSI14 : RsiValues, MACD : MacdValues, MACDSignal : {0},
     VolumeRatio : VolumeRatios, Ret1D : Ret1DValues, Ret5D : Ret5DValues]


(***************************************************************************)
(* Tables.                                                                 *)
(*                                                                         *)
(* A Daily Bar Table of len bars is held as its last Len(tail) bars; the   *)
(* bars before the tail are HeadBar (positive volume, no signal).  A bar   *)
(* carries Close, Volume and the values the indicator library yields at    *)
(* that bar once its warm-up window is filled.  columns_ok is FALSE for a  *)
(* table on which the indicator computation raises (a missing or           *)
(* non-numeric column).  close_stats are the statistics evaluate_risk      *)
(* takes over the enriched Close series when it is long enough.            *)
(*                                                                         *)
(* An ordered mapping (a Python dict) is a sequence of [symbol, df]        *)
(* records with distinct symbols, in insertion order.                      *)
(***************************************************************************)

MkRow(close, volume, s20, s50, s200, rsi, macd, vr, r1, r5) ==
    [Close |-> close, Volume |-> volume,
     SMA20 |-> s20, SMA50 |-> s50, SMA200 |-> s200, RSI14 |-> rsi,
     MACD |-> macd, MACDSignal |-> 0, MACDHist |-> macd,
     VolumeRatio |-> vr, Ret1D |-> r1, Ret5D |-> r5]

HeadBar == MkRow(1000, 1, 2, 2, 2, 30, 0, 100, 0, 0)

BarAt(h, i) ==
    IF i > h.len - Len(h.tail) THEN h.tail[i - (h.len - Len(h.tail))]
    ELSE HeadBar

KeySet(m) == {m[k].symbol : k \in 1..Len(m)}
Lookup(m, s) == (CHOOSE k \in 1..Len(m) : m[k].symbol = s)
Get(m, s) == m[Lookup(m, s)].df

(***************************************************************************)
(* indicator_engine.py                                                     *)
(***************************************************************************)

\* first bar (1-based) at which each windowed column is defined
FirstDefined(col) ==
    CASE col = "RSI14" -> 14
      [] col = "SMA20" -> 20
      [] col = "SMA50" -> 50
      [] col = "SMA200" -> 200
      [] col = "EMA20" -> 20
      [] col = "MACD" -> 26
      [] col = "MACDSignal" -> 26 + 9 - 1
      [] col = "MACDHist" -> 26 + 9 - 1
      [] col = "Ret1D" -> 1 + 1
      [] col = "Ret5D" -> 5 + 1
      [] col = "VolumeAvg20" -> 20
      [] col = "VolumeRatio" -> 20
      [] OTHER -> 1

DerivedColumns ==
    {"RSI14", "SMA20", "SMA50", "SMA200", "EMA20", "VWAP", "MACD",
     "MACDSignal", "MACDHist", "Ret1D", "Ret5D", "VolumeAvg20", "VolumeRatio"}

\* cumulative volume without replace(0, nan): defined at every bar
CumulativeVolumeNoGap(h, i) == TRUE

\* _calc_vwap: Volume.replace(0, nan).cumsum() is NaN exactly at the
\* zero-volume bars (cumsum skips NaN but leaves it in place)
CumulativeVolumeDefined(h, i) == BarAt(h, i).Volume # 0

ColumnDefined(h, col, i) ==
    /\ i >= FirstDefined(col)
    /\ col = "VWAP" => CumulativeVolumeDefined(h, i)
    /\ col = "VolumeRatio" =>
           \E j \in (i - 19)..i : BarAt(h, j).Volume # 0

\* the longest warm-up window of the derived columns
WarmUp ==
    CHOOSE w \in {FirstDefined(c) : c \in DerivedColumns} :
        \A c \in DerivedColumns : FirstDefined(c) <= w

\* data.dropna(): a row is kept iff no column of it is null
RowKept(h, i) ==
    /\ i >= WarmUp
    /\ \A col \in DerivedColumns : ColumnDefined(h, col, i)

EnrichOne(h) ==
    [index |-> SelectSeq([i \in 1..h.len |-> i], LAMBDA i : RowKept(h, i)),
     data |-> h]

Raises(h) == ~h.columns_ok

\* the loop of enrich_with_indicators without the try/except: the first
\* raising symbol ends the call with its exception
EnrichNoTry(m) ==
    IF \E k \in 1..Len(m) : Raises(m[k].df)
    THEN [raised |-> TRUE, value |-> <<>>]
    ELSE [raised |-> FALSE,
          value |-> [k \in 1..Len(m) |->
                        [symbol |-> m[k].symbol, df |-> EnrichOne(m[k].df)]]]

\* the loop over price_history.items(): a raising symbol is logged and
\* left out
RECURSIVE EnrichLoop(_)
EnrichLoop(m) ==
    IF m = <<>> THEN <<>>
    ELSE IF Raises(Head(m).df) THEN EnrichLoop(Tail(m))
    ELSE <<[symbol |-> Head(m).symbol, df |-> EnrichOne(Head(m).df)]>>
         \o EnrichLoop(Tail(m))

\* the call's outcome: whether an exception left it, and the mapping
\* returned otherwise
enrich_with_indicators(m) == [raised |-> FALSE, value |-> EnrichLoop(m)]

(***************************************************************************)
(* signal_generator.py : generate_signals                                  *)
(***************************************************************************)

Empty(df) == df.index = <<>>
\* df.iloc[-1]
Latest(df) == BarAt(df.data, df.index[Len(df.index)])

\* round-half-even of n / d  (d > 0, n >= 0)
RoundDiv(n, d) ==
    LET q == n \div d
        r == n % d
    IN IF 2 * r < d THEN q
       ELSE IF 2 * r > d THEN q + 1
       ELSE IF q % 2 = 0 THEN q ELSE q + 1

AdmitStrict(score) == score > Pts(55)

Admit(score) == score >= Pts(55)

BuySignal(symbol, latest) ==
    [symbol |-> symbol, signal |-> "BUY",
     current_price |-> latest.Close,
     entry_zone |-> <<RoundDiv(latest.Close * 99, 100), RoundDiv(latest.Close * 101, 100)>>,
     target_price |-> RoundDiv(latest.Close * 105, 100),
     stop_loss |-> RoundDiv(latest.Close * 97, 100),
     reason |-> <<"Momentum + trend alignment", latest.RSI14, latest.VolumeRatio>>,
     signal_score |-> BuyScore(latest)]

SellSignal(symbol, latest) ==
    [symbol |-> symbol, signal |-> "SELL",
     current_price |-> latest.Close,
     entry_zone |-> <<RoundDiv(latest.Close * 99, 100), RoundDiv(latest.Close * 101, 100)>>,
     target_price |-> RoundDiv(latest.Close * 95, 100),
     stop_loss |-> RoundDiv(latest.Close * 103, 100),
     reason |-> <<"Reversal risk elevated", latest.RSI14, latest.MACDHist>>,
     signal_score |-> SellScore(latest)]

\* the buys (resp. sells) list after the loop over indicator_data.items()
RECURSIVE Candidates(_, _)
Candidates(m, dir) ==
    IF m = <<>> THEN <<>>
    ELSE LET symbol == Head(m).symbol
             df == Head(m).df
             rest == Candidates(Tail(m), dir)
         IN IF Empty(df) THEN rest
            ELSE IF dir = "BUY"
                 THEN (IF Admit(BuyScore(Latest(df)))
                       THEN <<BuySignal(symbol, Latest(df))>> ELSE <<>>) \o rest
                 ELSE (IF Admit(SellScore(Latest(df)))
                       THEN <<SellSignal(symbol, Latest(df))>> ELSE <<>>) \o rest

\* insert x into a list sorted by descending score, after its equals
RECURSIVE InsertDesc(_, _)
InsertDesc(x, s) ==
    IF s = <<>> THEN <<x>>
    ELSE IF Head(s).signal_score >= x.signal_score
         THEN <<Head(s)>> \o InsertDesc(x, Tail(s))
         ELSE <<x>> \o s

\* insert x before its equals
RECURSIVE InsertDescBefore(_, _)
InsertDescBefore(x, s) ==
    IF s = <<>> THEN <<x>>
    ELSE IF Head(s).signal_score > x.signal_score
         THEN <<Head(s)>> \o InsertDescBefore(x, Tail(s))
         ELSE <<x>> \o s

\* a descending sort that reverses the order of equal scores
\* (sorted(...)[::-1] instead of sorted(..., reverse=True))
RECURSIVE SortedDescUnstable(_)
SortedDescUnstable(s) ==
    IF s = <<>> THEN <<>>
    ELSE InsertDescBefore(s[Len(s)], SortedDescUnstable(SubSeq(s, 1, Len(s) - 1)))

\* sorted(s, key=lambda x: x.signal_score, reverse=True): stable
RECURSIVE SortedDesc(_)
SortedDesc(s) ==
    IF s = <<>> THEN <<>>
    ELSE InsertDesc(s[Len(s)], SortedDesc(SubSeq(s, 1, Len(s) - 1)))

\* s[:n] for n >= 0
Truncate(s, n) == SubSeq(s, 1, Min(n, Len(s)))

generate_signals(m, n) ==
    Truncate(SortedDesc(Candidates(m, "BUY")), n)
    \o Truncate(SortedDesc(Candidates(m, "SELL")), n)


(***************************************************************************)
(* risk_engine.py                                                          *)
(*                                                                         *)
(* Floats that may be NaN: arithmetic propagates NaN, every comparison     *)
(* with NaN is false, and Python's min(a, b) / max(a, b) return a unless   *)
(* b compares below / above it.                                            *)
(***************************************************************************)

\* an integer no computation of the model yields stands for float('nan')
NaN == 0 - 1000000000

NSub(a, b) == IF a = NaN \/ b = NaN THEN NaN ELSE a - b
NAbs(a) == IF a = NaN THEN NaN ELSE Abs(a)
NLess(a, b) == a # NaN /\ b # NaN /\ a < b
PyMin(a, b) == IF NLess(b, a) THEN b ELSE a
PyMax(a, b) == IF NLess(a, b) THEN b ELSE a

\* 1.0 in units of 1e-4
Unit == 100 * 100

\* blended risk is held as a numerator over BlendDen = 100 * BlendLcm,
\* BlendLcm the least common multiple of 0.6, 0.35 and 1.0 in units of 1e-4
BlendLcm == 35 * 6000
BlendDen == 100 * BlendLcm

\* _risk_level; the argument is in units of 1 / BlendDen
risk_level(score) ==
    IF NLess(score, 33 * BlendLcm) THEN "LOW"
    ELSE IF NLess(score, 66 * BlendLcm) THEN "MEDIUM"
    ELSE "HIGH"

\* returns = data["Close"].pct_change().dropna()
NumReturns(data) == Max(Len(data.index) - 1, 0)

\* returns.std() * sqrt(252): the sample standard deviation (ddof = 1) is
\* NaN for fewer than two returns
Volatility(data) ==
    IF NumReturns(data) < 2 THEN NaN ELSE data.data.close_stats.annVol

\* abs of the minimum of (cumulative - peak) / peak: NaN over no return,
\* 0 over a single return
DrawdownAbs(data) ==
    IF NumReturns(data) = 0 THEN NaN
    ELSE IF NumReturns(data) = 1 THEN 0
    ELSE NAbs(data.data.close_stats.maxDD)

TrendStrength(data) ==
    IF Len(data.index) >= 30 THEN Abs(data.data.close_stats.trend30) ELSE 0

TrendStability(data) ==
    PyMax(0, PyMin(Unit, NSub(Unit, NAbs(NSub(Volatility(data), TrendStrength(data))))))

\* min(volatility / 0.6, 1.0) as a numerator over 6000
NormalizedVol(data) == PyMin(Volatility(data), 6000)
\* min(drawdown_abs / 0.35, 1.0) as a numerator over 3500
NormalizedDd(data) == PyMin(DrawdownAbs(data), 3500)

BlendedRisk(data) ==
    IF NormalizedVol(data) = NaN \/ NormalizedDd(data) = NaN THEN NaN
    ELSE 45 * NormalizedVol(data) * (BlendLcm \div 6000)
         + 45 * NormalizedDd(data) * (BlendLcm \div 3500)
         + 10 * (Unit - TrendStability(data)) * (BlendLcm \div Unit)

evaluate_risk(signal, data) ==
    [volatility_score |-> Volatility(data),
     drawdown_risk |-> DrawdownAbs(data),
     trend_stability |-> TrendStability(data),
     stop_loss |-> signal.stop_loss,
     risk_level |-> risk_level(BlendedRisk(data))]

SignalSymbols(sigs) == {sigs[i].symbol : i \in 1..Len(sigs)}

\* the value a dict comprehension over sigs keeps for key s: the one of
\* the last signal carrying that symbol
LastFor(sigs, s) ==
    sigs[CHOOSE i \in 1..Len(sigs) :
            /\ sigs[i].symbol = s
            /\ \A j \in (i + 1)..Len(sigs) : sigs[j].symbol # s]

batch_evaluate(sigs, m) ==
    [s \in SignalSymbols(sigs) |-> evaluate_risk(LastFor(sigs, s), Get(m, s))]

\* data["Close"] raises KeyError on a table without that column
EvaluateRaises(data) == ~data.data.columns_ok

\* the evaluation of one signal inside the comprehension raises: KeyError
\* of indicator_data[signal.symbol], or evaluate_risk raising
RiskRaises(signal, m) ==
    \/ signal.symbol \notin KeySet(m)
    \/ EvaluateRaises(Get(m, signal.symbol))

\* the comprehension has no try/except: the first raise leaves it
BatchRaises(sigs, m) == \E i \in 1..Len(sigs) : RiskRaises(sigs[i], m)

(***************************************************************************)
(* probability_engine.py                                                   *)
(***************************************************************************)

SignalComponentUncapped(score) == score

\* min(signal_score / 100, 1.0) in units of 1e-4
SignalComponent(score) == Min(score, Unit)

RiskComponent(level) ==
    CASE level = "LOW" -> 85
      [] level = "MEDIUM" -> 65
      [] level = "HIGH" -> 45

\* KeyError of the risk_component lookup
ProbabilityRaises(risk) == risk.risk_level \notin {"LOW", "MEDIUM", "HIGH"}

\* round(100 * (0.55*signal + 0.30*risk + 0.15*stability), 2), in hundredths
Probability(score, level, stability) ==
    RoundDiv(55 * SignalComponent(score) + 30 * 100 * RiskComponent(level)
             + 15 * stability, 100)

ConfidenceNote(probability) ==
    IF probability >= Pts(70) THEN "Strong trend continuation"
    ELSE IF probability >= Pts(55) THEN "Moderate edge with controlled risk"
    ELSE "Weak setup; position sizing caution"

estimate_probability(signal, risk) ==
    LET probability ==
            Probability(signal.signal_score, risk.risk_level, risk.trend_stability)
    IN [probability |-> probability, confidence_note |-> ConfidenceNote(probability)]

(***************************************************************************)
(* report_generator.py : build_report_dataframe                            *)
(***************************************************************************)

ReportRow(signal, risk, prob) ==
    [StockName |-> signal.symbol,
     Signal |-> signal.signal,
     CurrentPrice |-> signal.current_price,
     EntryZone |-> signal.entry_zone,
     TargetPrice |-> signal.target_price,
     StopLoss |-> risk.stop_loss,
     RiskLevel |-> risk.risk_level,
     Probability |-> prob.probability,
     Reason |-> <<signal.reason, prob.confidence_note>>]

\* "BUY" sorts before "SELL"; within a signal, higher probability first
RowBefore(x, y) ==
    \/ x.Signal = "BUY" /\ y.Signal = "SELL"
    \/ x.Signal = y.Signal /\ x.Probability > y.Probability

RECURSIVE InsertRow(_, _)
InsertRow(x, s) ==
    IF s = <<>> THEN <<x>>
    ELSE IF RowBefore(x, Head(s)) THEN <<x>> \o s
    ELSE <<Head(s)>> \o InsertRow(x, Tail(s))

\* df.sort_values(by=[Signal, Probability], ascending=[True, False])
RECURSIVE SortRows(_)
SortRows(s) ==
    IF s = <<>> THEN <<>>
    ELSE InsertRow(s[Len(s)], SortRows(SubSeq(s, 1, Len(s) - 1)))

build_report_dataframe(sigs, rs, ps) ==
    SortRows([i \in 1..Len(sigs) |->
                 ReportRow(sigs[i], rs[sigs[i].symbol], ps[sigs[i].symbol])])

(***************************************************************************)
(* Score harness: apply _buy_score and _sell_score to one row              *)
(***************************************************************************)

InitScore ==
    /\ mode = "score"
    /\ pc = "start"
    /\ row \in Rows
    /\ buy_score = NONE
    /\ sell_score = NONE
    /\ top_n = 0
    /\ price_history = <<>>
    /\ indicator_data = <<>>
    /\ signals = <<>>
    /\ risks = <<>> /\ probabilities = <<>> /\ report_df = <<>> /\ saved = NONE
    /\ prob_in = NONE /\ prob_out = NONE

ScoreRow ==
    /\ mode = "score"
    /\ pc = "start"
    /\ buy_score' = BuyScore(row)
    /\ sell_score' = SellScore(row)
    /\ pc' = "done"
    /\ UNCHANGED <<mode, row, top_n, price_history, indicator_data, signals,
                   reportVars, probVars>>

NextScore == ScoreRow

SpecScore == InitScore /\ [][NextScore]_vars


(***************************************************************************)
(* Stage harness: enrich_with_indicators and generate_signals called on    *)
(* an arbitrary input mapping with an arbitrary top_n >= 0                 *)
(***************************************************************************)

MaxStageSymbols == 4
MaxTopN == 2

NoStats == [annVol |-> 0, maxDD |-> 0, trend30 |-> 0]

Table(len, tail, ok, stats) ==
    [len |-> len, tail |-> tail, columns_ok |-> ok, close_stats |-> stats]

\* latest rows: BUY exactly 55; BUY 54.99; BUY 54.99 with SELL exactly 55;
\* BUY 55 with SELL 56.10 (a rally inside a long decline, then five falling
\* days on heavy volume); BUY 100; SELL 90
RowBuy55 == MkRow(1000, 1, 3, 2, 2, 55, 0, 150, 0, 0)
RowBuy5499 == MkRow(1100, 1, 3, 2, 1, 30, 0, 150, 0, 499)
RowSell55 == MkRow(1100, 1, 3, 2, 1, 76, -1, 150, -100, 499)
RowBoth == MkRow(1200, 1, 3, 1, 2, 48, -1, 155, -125, -610)
RowBuy100 == MkRow(1300, 1, 3, 2, 1, 55, 1, 150, 100, 2000)
RowSell90 == MkRow(1400, 1, 1, 2, 3, 76, -1, 150, -100, 0)
ZeroVolume(r) == [r EXCEPT !.Volume = 0, !.VolumeRatio = 0]

StageTables ==
    {Table(WarmUp + 2, <<r>>, TRUE, NoStats) :
        r \in {RowBuy55, RowSell55, RowBoth}}
    \cup {Table(WarmUp + 2, <<RowBuy100, ZeroVolume(RowSell90)>>, TRUE, NoStats),
          Table(WarmUp - 1, <<RowBuy100>>, TRUE, NoStats),
          Table(WarmUp + 2, <<RowBuy100>>, FALSE, NoStats)}

\* the input mapping lists the symbols in descending order, so that the
\* order of the mapping differs from the order of the symbols
Descending(n) == [k \in 1..n |-> n + 1 - k]

InitStages ==
    /\ mode = "stages"
    /\ pc = "collected"
    /\ row = NONE /\ buy_score = NONE /\ sell_score = NONE
    /\ top_n \in 0..MaxTopN
    /\ \E tables \in [1..MaxStageSymbols -> StageTables] :
           price_history =
               [k \in 1..MaxStageSymbols |->
                   [symbol |-> Descending(MaxStageSymbols)[k], df |-> tables[k]]]
    /\ indicator_data = <<>>
    /\ signals = <<>>
    /\ risks = <<>> /\ probabilities = <<>> /\ report_df = <<>> /\ saved = NONE
    /\ prob_in = NONE /\ prob_out = NONE

EnrichWithIndicators ==
    /\ pc = "collected"
    /\ LET enriched == enrich_with_indicators(price_history)
       IN IF enriched.raised
          THEN indicator_data' = <<>> /\ pc' = "error"
          ELSE indicator_data' = enriched.value /\ pc' = "enriched"
    /\ UNCHANGED <<mode, scoreVars, top_n, price_history, signals, reportVars,
                   probVars>>

GenerateSignals ==
    /\ pc = "enriched"
    /\ signals' = generate_signals(indicator_data, top_n)
    /\ pc' = "signals"
    /\ UNCHANGED <<mode, scoreVars, top_n, price_history, indicator_data,
                   reportVars, probVars>>

NextStages == EnrichWithIndicators \/ GenerateSignals

SpecStages == InitStages /\ [][NextStages]_vars


(***************************************************************************)
(* probability harness: estimate_probability on two signals that differ    *)
(* in signal_score only, with the same Risk Profile                        *)
(***************************************************************************)

HarnessScores == {0, 1, 5499, 5500, 5501, 7250, 9999, 10000, 10001, 12000}
HarnessStabilities == {0, 1, 3333, 5000, 9999, 10000}

InitProb ==
    /\ mode = "prob"
    /\ pc = "start"
    /\ row = NONE /\ buy_score = NONE /\ sell_score = NONE
    /\ top_n = 0
    /\ price_history = <<>>
    /\ indicator_data = <<>>
    /\ signals = <<>>
    /\ risks = <<>> /\ probabilities = <<>> /\ report_df = <<>> /\ saved = NONE
    /\ prob_in \in [s1 : HarnessScores, s2 : HarnessScores,
                    risk_level : {"LOW", "MEDIUM", "HIGH"},
                    trend_stability : HarnessStabilities]
    /\ prob_out = NONE

EstimatePair ==
    /\ mode = "prob"
    /\ pc = "start"
    /\ prob_out' =
           <<estimate_probability([signal_score |-> prob_in.s1], prob_in),
             estimate_probability([signal_score |-> prob_in.s2], prob_in)>>
    /\ pc' = "done"
    /\ UNCHANGED <<mode, scoreVars, top_n, price_history, indicator_data,
                   signals, reportVars, prob_in>>

NextProb == EstimatePair

SpecProb == InitProb /\ [][NextProb]_vars

(***************************************************************************)
(* main.py : run_daily_analysis, with data_fetcher.py : collect_market_data*)
(***************************************************************************)

\* symbols are numbered in sorted order; DEFAULT_NSE_SYMBOLS are the first
\* NumDefault of them and the scrape may add the next one
NumDefault == 2
DEFAULT_NSE_SYMBOLS == 1..NumDefault
ScrapeResults == {{}, {NumDefault + 1}}

\* minimum history collect_market_data accepts
MinHistory == 60
\* top_n passed by run_daily_analysis
RunTopN == 10

CalmStats == [annVol |-> 1500, maxDD |-> -500, trend30 |-> 1000]
WildStats == [annVol |-> 7000, maxDD |-> -4000, trend30 |-> -500]

\* yf.download returned nothing
EmptyFrame == Table(0, <<>>, TRUE, NoStats)

\* what the data source may return for a symbol
Downloads ==
    {EmptyFrame,
     Table(MinHistory - 1, <<RowBuy100>>, TRUE, NoStats),
     Table(MinHistory, <<RowBuy100>>, TRUE, NoStats),
     Table(WarmUp - 1, <<RowBuy100>>, TRUE, NoStats),
     Table(WarmUp, <<RowBuy55>>, TRUE, NoStats),
     Table(WarmUp + 1, <<RowSell90>>, TRUE, NoStats),
     Table(WarmUp + 2, <<RowBuy5499>>, TRUE, CalmStats),
     Table(WarmUp + 45, <<RowBoth>>, TRUE, CalmStats),
     Table(WarmUp + 45, <<RowBuy100>>, TRUE, CalmStats),
     Table(WarmUp + 45, <<RowSell90, ZeroVolume(RowBuy100)>>, TRUE, WildStats),
     Table(WarmUp + 45, <<RowBuy100>>, FALSE, CalmStats)}

\* _fetch_symbol_history raises on an empty frame; reading a missing
\* column of the latest bar raises inside the same try block
FetchRaises(hist) == hist.len = 0 \/ ~hist.columns_ok

\* the loop over the universe: price_history in universe order
RECURSIVE Collect(_, _)
Collect(universe, download) ==
    IF universe = <<>> THEN <<>>
    ELSE LET symbol == Head(universe)
             hist == download[symbol]
             rest == Collect(Tail(universe), download)
         IN IF FetchRaises(hist) THEN rest
            ELSE IF hist.len < MinHistory THEN rest
            ELSE <<[symbol |-> symbol, df |-> hist]>> \o rest

\* sorted(set(...)) of symbols numbered in sorted order
RECURSIVE Sorted(_)
Sorted(S) ==
    IF S = {} THEN <<>>
    ELSE LET least == CHOOSE x \in S : \A y \in S : x <= y
         IN <<least>> \o Sorted(S \ {least})

InitRun ==
    /\ mode = "run"
    /\ pc = "start"
    /\ row = NONE /\ buy_score = NONE /\ sell_score = NONE
    /\ top_n = RunTopN
    /\ price_history = <<>>
    /\ indicator_data = <<>>
    /\ signals = <<>>
    /\ risks = <<>> /\ probabilities = <<>> /\ report_df = <<>> /\ saved = NONE
    /\ prob_in = NONE /\ prob_out = NONE

\* collect_market_data: RuntimeError on an empty universe or when no symbol
\* yields a market-table row
CollectMarketData ==
    /\ mode = "run"
    /\ pc = "start"
    /\ \E scraped \in ScrapeResults :
         LET universe == Sorted(scraped \cup DEFAULT_NSE_SYMBOLS)
         IN IF universe = <<>>
            THEN pc' = "error" /\ price_history' = <<>>
            ELSE \E download \in [scraped \cup DEFAULT_NSE_SYMBOLS -> Downloads] :
                   LET collected == Collect(universe, download)
                   IN IF collected = <<>>
                      THEN pc' = "error" /\ price_history' = <<>>
                      ELSE pc' = "collected" /\ price_history' = collected
    /\ UNCHANGED <<mode, scoreVars, top_n, indicator_data, signals, reportVars,
                   probVars>>

\* an exception of the comprehension propagates out of batch_evaluate and
\* out of run_daily_analysis
BatchEvaluate ==
    /\ mode \in {"run", "batch"}
    /\ pc = "signals"
    /\ IF BatchRaises(signals, indicator_data)
       THEN risks' = <<>> /\ pc' = "error"
       ELSE risks' = batch_evaluate(signals, indicator_data) /\ pc' = "risks"
    /\ UNCHANGED <<mode, scoreVars, top_n, price_history, indicator_data,
                   signals, probabilities, report_df, saved, probVars>>

\* {signal.symbol: estimate_probability(signal, risks[signal.symbol]) ...}
EstimateProbabilities ==
    /\ mode \in {"run", "batch"}
    /\ pc = "risks"
    /\ IF \E s \in SignalSymbols(signals) : ProbabilityRaises(risks[s])
       THEN probabilities' = <<>> /\ pc' = "error"
       ELSE /\ probabilities' =
                  [s \in SignalSymbols(signals) |->
                      estimate_probability(LastFor(signals, s), risks[s])]
            /\ pc' = "probabilities"
    /\ UNCHANGED <<mode, scoreVars, top_n, price_history, indicator_data,
                   signals, risks, report_df, saved, probVars>>

BuildReport ==
    /\ mode = "run"
    /\ pc = "probabilities"
    /\ report_df' = build_report_dataframe(signals, risks, probabilities)
    /\ pc' = "reported"
    /\ UNCHANGED <<mode, scoreVars, top_n, price_history, indicator_data,
                   signals, risks, probabilities, saved, probVars>>

\* print_console_report, then save_excel_report; the path is returned
SaveExcelReport ==
    /\ mode = "run"
    /\ pc = "reported"
    /\ saved' = report_df
    /\ pc' = "done"
    /\ UNCHANGED <<mode, scoreVars, top_n, price_history, indicator_data,
                   signals, risks, probabilities, report_df, probVars>>

Next ==
    \/ CollectMarketData
    \/ EnrichWithIndicators
    \/ GenerateSignals
    \/ BatchEvaluate
    \/ EstimateProbabilities
    \/ BuildReport
    \/ SaveExcelReport

Spec == InitRun /\ [][Next]_vars

(***************************************************************************)
(* risk_engine.py : batch_evaluate, followed by the probability step of    *)
(* run_daily_analysis, on a signal list and a mapping the caller supplies  *)
(***************************************************************************)

MaxBatchSymbols == 3
BatchSymbols == 1..MaxBatchSymbols

\* the table with its Close column dropped
WithoutClose(df) == [df EXCEPT !.data.columns_ok = FALSE]

CalmFrame == EnrichOne(Table(WarmUp + 45, <<RowBuy100>>, TRUE, CalmStats))
WildFrame == EnrichOne(Table(WarmUp + 45, <<RowBuy100>>, TRUE, WildStats))

BatchFrames == {CalmFrame, WildFrame, WithoutClose(CalmFrame)}

\* indicator_data holds a table for the symbols of held, and signals lists
\* a BUY signal for each symbol of asked
InitBatch ==
    /\ mode = "batch"
    /\ pc = "signals"
    /\ row = NONE /\ buy_score = NONE /\ sell_score = NONE
    /\ top_n = RunTopN
    /\ price_history = <<>>
    /\ \E held \in SUBSET BatchSymbols :
           \E frames \in [held -> BatchFrames] :
               indicator_data =
                   [k \in 1..Cardinality(held) |->
                       [symbol |-> Sorted(held)[k],
                        df |-> frames[Sorted(held)[k]]]]
    /\ \E asked \in SUBSET BatchSymbols :
           signals = [k \in 1..Cardinality(asked) |->
                         BuySignal(Sorted(asked)[k], RowBuy100)]
    /\ risks = <<>> /\ probabilities = <<>> /\ report_df = <<>> /\ saved = NONE
    /\ prob_in = NONE /\ prob_out = NONE

NextBatch == BatchEvaluate \/ EstimateProbabilities

SpecBatch == InitBatch /\ [][NextBatch]_vars


(***************************************************************************)
(* Properties                                                              *)
(***************************************************************************)

Score(dir, r) == IF dir = "BUY" THEN BuyScore(r) ELSE SellScore(r)

\* symbols of the input mapping whose latest row reaches 55 in direction dir
Qualifying(dir) ==
    {s \in KeySet(indicator_data) :
        /\ Get(indicator_data, s).index # <<>>
        /\ Score(dir, Latest(Get(indicator_data, s))) >= 5500}

ScoreOf(dir, s) == Score(dir, Latest(Get(indicator_data, s)))

Direction(dir) == SelectSeq(signals, LAMBDA x : x.signal = dir)

\* sx is ranked before sy: higher score, or equal score and earlier in
\* the input mapping
Before(sc, pos, sx, sy) ==
    \/ sc[sx] > sc[sy]
    \/ sc[sx] = sc[sy] /\ pos[sx] < pos[sy]

DirectionRanked(dir) ==
    LET d == Direction(dir)
        Q == Qualifying(dir)
        sc == [s \in Q |-> ScoreOf(dir, s)]
        pos == [s \in Q |-> Lookup(indicator_data, s)]
        kept == {d[i].symbol : i \in 1..Len(d)}
    IN /\ Len(d) = Min(top_n, Cardinality(Q))
       /\ kept \subseteq Q
       /\ \A i \in 1..Len(d) : d[i].signal_score = sc[d[i].symbol]
       /\ \A i, j \in 1..Len(d) :
              i < j => /\ d[i].signal_score >= d[j].signal_score
                       /\ Before(sc, pos, d[i].symbol, d[j].symbol)
       /\ \A q \in Q \ kept : \A x \in kept : Before(sc, pos, x, q)

\* C1: generate_signals returns the BUY signals followed by the SELL
\* signals, at most top_n of each; each direction is in non-increasing
\* score order, holds exactly the top_n highest-scoring qualifying
\* candidates, and equal scores keep the order of the input mapping.
C1_RankedTopN ==
    (mode = "stages" /\ pc = "signals") =>
        /\ signals = Direction("BUY") \o Direction("SELL")
        /\ Len(Direction("BUY")) <= top_n
        /\ Len(Direction("SELL")) <= top_n
        /\ DirectionRanked("BUY")
        /\ DirectionRanked("SELL")

\* a tie at the cut-off: two qualifying BUY symbols of equal score, the
\* earlier one kept and the later one cut
C1_Witness ==
    /\ mode = "stages" /\ pc = "signals"
    /\ \E q \in Qualifying("BUY") : \E i \in 1..Len(signals) :
           /\ signals[i].signal = "BUY"
           /\ signals[i].signal_score = ScoreOf("BUY", q)
           /\ Lookup(indicator_data, signals[i].symbol) < Lookup(indicator_data, q)
           /\ \A j \in 1..Len(signals) : signals[j].symbol # q

\* C2: a signal is created for a symbol in a direction only if the score
\* of its latest enriched row in that direction is >= 55; a score of
\* exactly 55 is admitted, a score below 55 never appears, and when a
\* direction has at most top_n qualifying symbols all of them appear.
C2_Threshold ==
    (mode = "stages" /\ pc = "signals") =>
        /\ \A i \in 1..Len(signals) :
              /\ signals[i].symbol \in KeySet(indicator_data)
              /\ Get(indicator_data, signals[i].symbol).index # <<>>
              /\ signals[i].signal_score
                     = ScoreOf(signals[i].signal, signals[i].symbol)
              /\ signals[i].signal_score >= 5500
        /\ \A dir \in {"BUY", "SELL"} :
              Cardinality(Qualifying(dir)) <= top_n =>
                  \A s \in Qualifying(dir) : \E i \in 1..Len(signals) :
                      signals[i].symbol = s /\ signals[i].signal = dir

\* a symbol scoring exactly 55 is emitted while one scoring 54.99 is not
C2_Witness ==
    /\ mode = "stages" /\ pc = "signals"
    /\ \E i \in 1..Len(signals) :
           signals[i].signal = "BUY" /\ signals[i].signal_score = 5500
    /\ \E s \in KeySet(indicator_data) :
           /\ Get(indicator_data, s).index # <<>>
           /\ ScoreOf("BUY", s) = 5499
           /\ \A i \in 1..Len(signals) : signals[i].symbol # s

\* the weights the scores are documented to add, without the momentum term
BuyWeights(r) ==
    (IF r.SMA20 > r.SMA50 THEN 2000 ELSE 0)
    + (IF r.SMA50 > r.SMA200 THEN 1500 ELSE 0)
    + (IF r.RSI14 >= 40 /\ r.RSI14 <= 70 THEN 2000 ELSE 0)
    + (IF r.MACD > r.MACDSignal THEN 2000 ELSE 0)
    + (IF r.VolumeRatio > 120 THEN 1500 ELSE 0)

SellWeights(r) ==
    (IF r.RSI14 > 75 THEN 2000 ELSE 0)
    + (IF r.SMA20 < r.SMA50 THEN 2000 ELSE 0)
    + (IF r.SMA50 < r.SMA200 THEN 1500 ELSE 0)
    + (IF r.MACD < r.MACDSignal THEN 2000 ELSE 0)
    + (IF r.VolumeRatio > 120 /\ r.Ret1D < 0 THEN 1500 ELSE 0)

\* C3: both scores are the sum of the listed weights plus a momentum term
\* in [0, 10], and lie in [0, 100]; the BUY score is exactly 100 when all
\* BUY conditions hold and Ret5D*100 >= 10.
C3_ScoreRange ==
    (mode = "score" /\ pc = "done") =>
        /\ buy_score >= 0 /\ buy_score <= 10000
        /\ sell_score >= 0 /\ sell_score <= 10000
        /\ buy_score - BuyWeights(row) >= 0
        /\ buy_score - BuyWeights(row) <= 1000
        /\ buy_score - BuyWeights(row)
               = (IF row.Ret5D <= 0 THEN 0
                  ELSE IF row.Ret5D >= 1000 THEN 1000 ELSE row.Ret5D)
        /\ sell_score - SellWeights(row)
               = (IF row.Ret5D >= 0 THEN 0
                  ELSE IF row.Ret5D <= -1000 THEN 1000 ELSE -row.Ret5D)
        /\ (/\ row.SMA20 > row.SMA50 /\ row.SMA50 > row.SMA200
            /\ row.RSI14 >= 40 /\ row.RSI14 <= 70
            /\ row.MACD > row.MACDSignal
            /\ row.VolumeRatio > 120
            /\ row.Ret5D >= 1000) => buy_score = 10000

\* a row meeting every BUY condition with a 5-day return above 10% scored
C3_Witness ==
    /\ mode = "score" /\ pc = "done"
    /\ row.SMA20 > row.SMA50 /\ row.SMA50 > row.SMA200
    /\ row.RSI14 = 55 /\ row.MACD > row.MACDSignal
    /\ row.VolumeRatio = 150 /\ row.Ret5D = 2000
    /\ buy_score = 10000

\* C4: no symbol is emitted in both directions: the returned list holds
\* at most one Trade Signal per symbol.
C4_OneSignalPerSymbol ==
    (mode = "stages" /\ pc = "signals") =>
        \A i, j \in 1..Len(signals) :
            i # j => signals[i].symbol # signals[j].symbol

NonRaising(m) == SelectSeq(m, LAMBDA e : e.df.columns_ok)

\* C7: enrich_with_indicators returns normally whatever symbols raise; the
\* result has no entry for a raising symbol, and the entries of the other
\* symbols are those the call yields with the raising symbols absent.
C7_FailureIsolation ==
    (mode = "stages" /\ pc \in {"enriched", "error"}) =>
        /\ pc # "error"
        /\ KeySet(indicator_data)
               = {s \in KeySet(price_history) : Get(price_history, s).columns_ok}
        /\ indicator_data = enrich_with_indicators(NonRaising(price_history)).value

\* the first symbol of the iteration raises and a later one is enriched
C7_Witness ==
    /\ mode = "stages" /\ pc = "enriched"
    /\ ~price_history[1].df.columns_ok
    /\ \E k \in 2..Len(price_history) :
           /\ price_history[k].df.columns_ok
           /\ price_history[k].symbol \in KeySet(indicator_data)
           /\ Get(indicator_data, price_history[k].symbol).index # <<>>


\* C5: _risk_level maps every blended risk to LOW below 0.33, MEDIUM from
\* 0.33 to below 0.66 and HIGH from 0.66 on, and the blended risk that
\* evaluate_risk passes to it always lies in [0, 1].
C5_BlendedInUnitInterval ==
    (mode = "run" /\ pc \in {"risks", "probabilities", "reported", "done"}) =>
        \A s \in DOMAIN risks :
            LET blended == BlendedRisk(Get(indicator_data, s))
            IN /\ blended # NaN
               /\ blended >= 0 /\ blended <= BlendDen
               /\ risks[s].risk_level =
                      (IF blended < 33 * BlendLcm THEN "LOW"
                       ELSE IF blended < 66 * BlendLcm THEN "MEDIUM"
                       ELSE "HIGH")

\* C6: with the same Risk Profile, a signal_score that is not lower gives a
\* probability that is not lower, and any two scores >= 100 give the same
\* probability.
C6_MonotoneInScore ==
    (mode = "prob" /\ pc = "done") =>
        /\ prob_in.s1 <= prob_in.s2 =>
               prob_out[1].probability <= prob_out[2].probability
        /\ (prob_in.s1 >= 10000 /\ prob_in.s2 >= 10000) =>
               prob_out[1].probability = prob_out[2].probability

\* a score of exactly 100 and a score above 100 estimated alike
C6_Witness ==
    /\ mode = "prob" /\ pc = "done"
    /\ prob_in.s1 = 10000 /\ prob_in.s2 = 12000
    /\ prob_out[1].probability = prob_out[2].probability
    /\ prob_out[1].probability > 0

\* C8: when no symbol survives enrichment (every enriched table is empty
\* or absent) or the universe is empty, run_daily_analysis ends in a
\* run-level error and neither builds nor saves a report.
C8_TotalFailureFatal ==
    (mode = "run" /\ pc \in {"reported", "done"}) =>
        \E k \in 1..Len(indicator_data) : indicator_data[k].df.index # <<>>

\* position of the last bar of h that has every derived value defined:
\* past every warm-up window and with traded volume; 0 if there is none
LastDefinedBar(h) ==
    LET ok == {i \in 200..h.len : BarAt(h, i).Volume # 0}
    IN IF ok = {} THEN 0 ELSE CHOOSE i \in ok : \A j \in ok : j <= i

AfterSignals == pc \in {"signals", "risks", "probabilities", "reported", "done"}

\* C9: a symbol with fewer than 200 bars gets an empty enriched table and
\* no Trade Signal, Risk Profile or Probability Estimate, while the other
\* symbols are processed; every kept row has all derived values defined
\* (no zero-volume bar is kept), and the latest row generate_signals uses
\* is the last fully-defined row.
C9_WarmUpAndLatest ==
    (mode = "run" /\ pc \in {"enriched"} \cup {"signals", "risks", "probabilities", "reported", "done"}) =>
        \A k \in 1..Len(price_history) :
            LET symbol == price_history[k].symbol
                h == price_history[k].df
            IN /\ symbol \in KeySet(indicator_data)
               /\ LET index == Get(indicator_data, symbol).index
                      last == LastDefinedBar(h)
                  IN /\ h.len < 200 => index = <<>>
                     /\ \A p \in 1..Len(index) :
                            index[p] >= 200 /\ BarAt(h, index[p]).Volume # 0
                     /\ last # 0 => (index # <<>> /\ index[Len(index)] = last)
                     /\ AfterSignals =>
                          /\ \A i \in 1..Len(signals) :
                                 signals[i].symbol = symbol =>
                                     /\ h.len >= 200
                                     /\ signals[i].current_price = BarAt(h, last).Close
                          /\ \A dir \in {"BUY", "SELL"} :
                                 (last # 0 /\ Score(dir, BarAt(h, last)) >= 5500) =>
                                     \E i \in 1..Len(signals) :
                                         /\ signals[i].symbol = symbol
                                         /\ signals[i].signal = dir
                     /\ pc \in {"risks", "probabilities", "reported", "done"} =>
                            (symbol \in DOMAIN risks <=> symbol \in SignalSymbols(signals))
                     /\ pc \in {"probabilities", "reported", "done"} =>
                            (symbol \in DOMAIN probabilities
                                 <=> symbol \in SignalSymbols(signals))

\* a finished run with a symbol of fewer than 200 bars left out, next to a
\* symbol whose last bar has zero volume and whose signal is priced from
\* the bar before it
C9_Witness ==
    /\ mode = "run" /\ pc = "done"
    /\ \E k \in 1..Len(price_history) :
           /\ price_history[k].df.len < 200
           /\ price_history[k].symbol \notin DOMAIN probabilities
    /\ \E k \in 1..Len(price_history) :
           LET h == price_history[k].df
           IN /\ h.len >= 200
              /\ BarAt(h, h.len).Volume = 0
              /\ \E i \in 1..Len(signals) :
                     /\ signals[i].symbol = price_history[k].symbol
                     /\ signals[i].current_price = BarAt(h, h.len - 1).Close
                     /\ signals[i].current_price # BarAt(h, h.len).Close
              /\ price_history[k].symbol \in DOMAIN probabilities

\* C10: every emitted Trade Signal is paired with its own Risk Profile and
\* Probability Estimate: the profile used for it carries its stop_loss,
\* the estimate used for it is computed from its signal_score, and its
\* report row shows that stop-loss and that probability.
C10_PairedOneToOne ==
    (mode = "run" /\ pc \in {"reported", "done"}) =>
        \A i \in 1..Len(signals) :
            LET sig == signals[i]
                risk == risks[sig.symbol]
                own == Probability(sig.signal_score, risk.risk_level,
                                   risk.trend_stability)
            IN /\ risk.stop_loss = sig.stop_loss
               /\ probabilities[sig.symbol].probability = own
               /\ \E r \in 1..Len(report_df) :
                      /\ report_df[r].StockName = sig.symbol
                      /\ report_df[r].Signal = sig.signal
                      /\ report_df[r].StopLoss = sig.stop_loss
                      /\ report_df[r].Probability = own

\* C11: a failure of evaluate_risk or estimate_probability for one signal
\* of the list is fatal for that signal only: once batch_evaluate has been
\* called, the run is not aborted, every signal whose own evaluation does
\* not raise has its Risk Profile, and after the probability step it has
\* its Probability Estimate.
C11_FailureFatalForThatSignalOnly ==
    (mode = "batch" /\ pc # "signals") =>
        /\ pc # "error"
        /\ \A i \in 1..Len(signals) :
               ~RiskRaises(signals[i], indicator_data) =>
                   /\ signals[i].symbol \in DOMAIN risks
                   /\ risks[signals[i].symbol] =
                          evaluate_risk(signals[i],
                                        Get(indicator_data, signals[i].symbol))
                   /\ pc = "probabilities" =>
                          signals[i].symbol \in DOMAIN probabilities

=============================================================================
